---- MODULE Spec2Model ----
(***************************************************************************)
(* Mini SQL engine: parser.py (parse), engine.py (Engine.load_csv,         *)
(* Engine.execute, Engine._apply_where) and the command loop of cli.py.    *)
(*                                                                         *)
(* A text (Python str) is a sequence of one-character strings.  A number   *)
(* (Python int or float) is a decimal n / 10^d; the literals and CSV       *)
(* fields of the model have no exponent, no inf and no nan, so every       *)
(* float of the model is such a decimal and compares exactly.              *)
(***************************************************************************)
EXTENDS Integers, Sequences, FiniteSets

VARIABLES tables, pc, sql, parsed, rows, result

vars == <<tables, pc, sql, parsed, rows, result>>

----------------------------------------------------------------------------
(* Python str primitives                                                   *)

Chars(s) == [i \in 1..Len(s) |-> SubSeq(s, i, i)]

\* characters of the model in code-point order (str comparison order)
AsciiChars ==
  Chars("\t !'()*+,-.0123456789;<=>ABCDEFGHIJKLMNOPQRSTUVWXYZ_abcdefghijklmnopqrstuvwxyz")

Ord(c) == CHOOSE i \in 1..Len(AsciiChars) : AsciiChars[i] = c

UpperChars == Chars("ABCDEFGHIJKLMNOPQRSTUVWXYZ")

LowerChars == Chars("abcdefghijklmnopqrstuvwxyz")

DigitChars == Chars("0123456789")

Range(f) == {f[i] : i \in DOMAIN f}

Whitespace == {" ", "\t"}

Letters == Range(UpperChars) \cup Range(LowerChars)

Digits == Range(DigitChars)

LowerCh(c) ==
  IF c \in Range(UpperChars)
    THEN LowerChars[CHOOSE i \in 1..26 : UpperChars[i] = c]
    ELSE c

UpperCh(c) ==
  IF c \in Range(LowerChars)
    THEN UpperChars[CHOOSE i \in 1..26 : LowerChars[i] = c]
    ELSE c

Lower(s) == [i \in 1..Len(s) |-> LowerCh(s[i])]

Upper(s) == [i \in 1..Len(s) |-> UpperCh(s[i])]

MinOf(S) == CHOOSE x \in S : \A y \in S : x <= y

MaxOf(S) == CHOOSE x \in S : \A y \in S : x >= y

\* str.strip()
Strip(s) ==
  LET I == {i \in 1..Len(s) : s[i] \notin Whitespace}
  IN  IF I = {} THEN <<>> ELSE SubSeq(s, MinOf(I), MaxOf(I))

\* str.rstrip(';')
RStripSemi(s) ==
  LET I == {i \in 1..Len(s) : s[i] # ";"}
  IN  IF I = {} THEN <<>> ELSE SubSeq(s, 1, MaxOf(I))

RECURSIVE Collapse(_, _)
Collapse(s, i) ==
  IF i > Len(s) THEN <<>>
  ELSE (IF s[i] \in Whitespace
          THEN (IF i > 1 /\ s[i - 1] \in Whitespace THEN <<>> ELSE <<" ">>)
          ELSE <<s[i]>>) \o Collapse(s, i + 1)

\* re.sub(r'\s+', ' ', s).strip()
normalize_whitespace(s) == Strip(Collapse(s, 1))

\* str.find(sub) + 1: the index of the leftmost occurrence, 0 when there is none
Find(s, sub) ==
  LET I == {i \in 1..(Len(s) - Len(sub) + 1) : SubSeq(s, i, i + Len(sub) - 1) = sub}
  IN  IF I = {} THEN 0 ELSE MinOf(I)

\* sub in s
Contains(s, sub) == Find(s, sub) # 0

StartsWith(s, p) == Len(s) >= Len(p) /\ SubSeq(s, 1, Len(p)) = p

\* str.split(sep, 1): one part when sep does not occur, else two
SplitOnce(s, sep) ==
  LET i == Find(s, sep)
  IN  IF i = 0 THEN <<s>>
      ELSE <<SubSeq(s, 1, i - 1), SubSeq(s, i + Len(sep), Len(s))>>

\* str.split(sep): every part
RECURSIVE SplitAll(_, _)
SplitAll(s, sep) ==
  LET i == Find(s, sep)
  IN  IF i = 0 THEN <<s>>
      ELSE <<SubSeq(s, 1, i - 1)>> \o SplitAll(SubSeq(s, i + Len(sep), Len(s)), sep)

\* leftmost match of the pattern \sWHERE\s (re.IGNORECASE), 0 when there is none
FindWhere(s) ==
  LET I == {i \in 1..(Len(s) - 6) :
              /\ s[i] \in Whitespace
              /\ Upper(SubSeq(s, i + 1, i + 5)) = Chars("WHERE")
              /\ s[i + 6] \in Whitespace}
  IN  IF I = {} THEN 0 ELSE MinOf(I)

\* re.split(r"\sWHERE\s", s, flags=re.IGNORECASE): no maxsplit, every match splits
RECURSIVE ReSplitWhere(_)
ReSplitWhere(s) ==
  LET i == FindWhere(s)
  IN  IF i = 0 THEN <<s>>
      ELSE <<SubSeq(s, 1, i - 1)>> \o ReSplitWhere(SubSeq(s, i + 7, Len(s)))

\* re.match(r"^[A-Za-z_][A-Za-z0-9_]*$", s)
IsIdentifier(s) ==
  /\ s # <<>>
  /\ s[1] \in Letters \cup {"_"}
  /\ \A i \in 1..Len(s) : s[i] \in Letters \cup Digits \cup {"_"}

\* re.match(r"^[A-Za-z0-9_]+$", s)
IsBareWord(s) ==
  /\ s # <<>>
  /\ \A i \in 1..Len(s) : s[i] \in Letters \cup Digits \cup {"_"}

RECURSIVE Join(_, _)
Join(parts, sep) ==
  IF parts = <<>> THEN <<>>
  ELSE IF Len(parts) = 1 THEN parts[1]
  ELSE parts[1] \o sep \o Join(Tail(parts), sep)

\* str < str: code-point lexicographic order
RECURSIVE TextLess(_, _)
TextLess(a, b) ==
  IF b = <<>> THEN FALSE
  ELSE IF a = <<>> THEN TRUE
  ELSE IF a[1] # b[1] THEN Ord(a[1]) < Ord(b[1])
  ELSE TextLess(Tail(a), Tail(b))

----------------------------------------------------------------------------
(* Python int() / float() / str() on the decimals of the model             *)

RECURSIVE Pow10(_)
Pow10(d) == IF d = 0 THEN 1 ELSE 10 * Pow10(d - 1)

DigitVal(c) == (CHOOSE i \in 1..10 : DigitChars[i] = c) - 1

\* digits with single underscores between digits, as int() and float() accept
IsDigitGroup(s) ==
  /\ s # <<>>
  /\ \A i \in 1..Len(s) : s[i] \in Digits \cup {"_"}
  /\ s[1] # "_" /\ s[Len(s)] # "_"
  /\ \A i \in 1..(Len(s) - 1) : ~(s[i] = "_" /\ s[i + 1] = "_")

RECURSIVE DigitsValue(_, _)
DigitsValue(s, acc) ==
  IF s = <<>> THEN acc
  ELSE IF s[1] = "_" THEN DigitsValue(Tail(s), acc)
  ELSE DigitsValue(Tail(s), 10 * acc + DigitVal(s[1]))

DigitCount(s) == Cardinality({i \in 1..Len(s) : s[i] \in Digits})

RECURSIVE Normal(_)
Normal(x) ==
  IF x.d > 0 /\ x.n % 10 = 0 THEN Normal([n |-> x.n \div 10, d |-> x.d - 1]) ELSE x

Signed(u) == u # <<>> /\ u[1] \in {"+", "-"}

\* int(text): [ok, n]; ok = FALSE stands for ValueError
ParseInt(t) ==
  LET Go(u) ==
        LET body == IF Signed(u) THEN Tail(u) ELSE u
            sign == IF u # <<>> /\ u[1] = "-" THEN -1 ELSE 1
        IN  IF IsDigitGroup(body)
              THEN [ok |-> TRUE, n |-> sign * DigitsValue(body, 0), d |-> 0]
              ELSE [ok |-> FALSE, n |-> 0, d |-> 0]
  IN  Go(Strip(t))

\* float(text) for plain decimal text: [ok, n, d] with value n / 10^d
ParseFloat(t) ==
  LET Ok(x) == [ok |-> TRUE, n |-> x.n, d |-> x.d]
      Value(sign, ip, fp) ==
        IF /\ ip = <<>> \/ IsDigitGroup(ip)
           /\ fp = <<>> \/ IsDigitGroup(fp)
           /\ ip # <<>> \/ fp # <<>>
          THEN Ok(Normal([n |-> sign * DigitsValue(ip \o fp, 0), d |-> DigitCount(fp)]))
          ELSE [ok |-> FALSE, n |-> 0, d |-> 0]
      Split(sign, parts) ==
        IF Len(parts) > 2 THEN [ok |-> FALSE, n |-> 0, d |-> 0]
        ELSE Value(sign, parts[1], IF Len(parts) = 2 THEN parts[2] ELSE <<>>)
      Go(u) ==
        Split(IF u # <<>> /\ u[1] = "-" THEN -1 ELSE 1,
              SplitAll(IF Signed(u) THEN Tail(u) ELSE u, <<".">>))
  IN  Go(Strip(t))

RECURSIVE NatText(_)
NatText(n) ==
  IF n < 10 THEN <<DigitChars[n + 1]>>
  ELSE NatText(n \div 10) \o <<DigitChars[(n % 10) + 1]>>

\* str(int)
IntText(n) == IF n < 0 THEN <<"-">> \o NatText(-n) ELSE NatText(n)

RECURSIVE PadLeft(_, _)
PadLeft(s, w) == IF Len(s) >= w THEN s ELSE PadLeft(<<"0">> \o s, w)

\* str(float) of n / 10^d (d normal): at least one digit after the point
FloatText(n, d) ==
  LET a == IF n < 0 THEN -n ELSE n
      whole == NatText(a \div Pow10(d))
      frac == IF d = 0 THEN <<"0">> ELSE PadLeft(NatText(a % Pow10(d)), d)
  IN  (IF n < 0 THEN <<"-">> ELSE <<>>) \o whole \o <<".">> \o frac

\* number comparison (int with float compares exactly)
NumLess(a, b) == a.n * Pow10(b.d) < b.n * Pow10(a.d)

NumEq(a, b) == a.n * Pow10(b.d) = b.n * Pow10(a.d)

----------------------------------------------------------------------------
(* parser.py                                                               *)

\* the candidates in another order: "=" and ">" tried before ">="
OpsShortestFirst == <<Chars("="), Chars(">"), Chars("<"), Chars(">="), Chars("<="), Chars("!=")>>

COMPARISON_OPS == <<Chars(">="), Chars("<="), Chars("!="), Chars("="), Chars(">"), Chars("<")>>

NoNumber == [n |-> 0, d |-> 0]

NoSelect == [type |-> "None", cols |-> <<>>, count_col |-> <<>>]

NoWhere ==
  [present |-> FALSE, col |-> <<>>, op |-> <<>>, val_type |-> "None",
   num |-> NoNumber, str |-> <<>>]

\* the locals of parse() when it returns or raises; kind is "query" for a
\* returned dict, else the class of the exception raised
NoParse ==
  [kind |-> "None", msg |-> "", select_body |-> <<>>, raw_rest |-> <<>>,
   has_where |-> FALSE, where_body |-> <<>>, select |-> NoSelect,
   from |-> <<>>, where |-> NoWhere]

\* COUNT\(\s*(\*|[A-Za-z_][A-Za-z0-9_]*)\s*\)$ matched at the start, ignoring case:
\* the group when it matches, <<>> when it does not
CountGroup(select_body) ==
  LET Go(n, inner) ==
        IF /\ StartsWith(Upper(select_body), Chars("COUNT("))
           /\ n >= 8
           /\ select_body[n] = ")"
           /\ inner = Chars("*") \/ IsIdentifier(inner)
          THEN inner
          ELSE <<>>
  IN  Go(Len(select_body), Strip(SubSeq(select_body, 7, Len(select_body) - 1)))

\* the pieces as written, not lowercased
ColumnPiecesAsWritten(select_body) ==
  LET Go(kept) == [i \in 1..Len(kept) |-> Strip(kept[i])]
  IN  Go(SelectSeq(SplitAll(select_body, <<",">>), LAMBDA c : Strip(c) # <<>>))

\* the pieces of select_body.split(",") that are not empty after strip(), lowercased
ColumnPieces(select_body) ==
  LET Go(kept) == [i \in 1..Len(kept) |-> Lower(Strip(kept[i]))]
  IN  Go(SelectSeq(SplitAll(select_body, <<",">>), LAMBDA c : Strip(c) # <<>>))

\* PARSE SELECT SECTION: [ok, msg, select]
ParseSelect(select_body) ==
  LET Count(m) ==
        IF m = <<>>
          THEN [ok |-> FALSE, msg |-> "Invalid COUNT() syntax", select |-> NoSelect]
          ELSE [ok |-> TRUE, msg |-> "",
                select |-> [type |-> "count", cols |-> <<>>, count_col |-> Lower(m)]]
      Columns(cols) ==
        IF cols = <<>>
          THEN [ok |-> FALSE, msg |-> "No columns specified in SELECT",
                select |-> NoSelect]
        ELSE IF \E i \in 1..Len(cols) : ~IsIdentifier(cols[i])
          THEN [ok |-> FALSE, msg |-> "Invalid column name", select |-> NoSelect]
        ELSE [ok |-> TRUE, msg |-> "",
              select |-> [type |-> "cols", cols |-> cols, count_col |-> <<>>]]
  IN  IF StartsWith(Upper(select_body), Chars("COUNT("))
        THEN Count(CountGroup(select_body))
      ELSE IF select_body = Chars("*")
        THEN [ok |-> TRUE, msg |-> "",
              select |-> [type |-> "cols", cols |-> <<Chars("*")>>, count_col |-> <<>>]]
      ELSE Columns(ColumnPieces(select_body))

\* the first candidate of COMPARISON_OPS that occurs in where_body, 0 when none does
FirstOp(where_body) ==
  LET I == {i \in 1..Len(COMPARISON_OPS) : Contains(where_body, COMPARISON_OPS[i])}
  IN  IF I = {} THEN 0 ELSE MinOf(I)

\* Parse value: [ok, val_type, num, str]
ParseValue(raw_val) ==
  LET Number(x) ==
        IF x.ok
          THEN [ok |-> TRUE, val_type |-> "num", num |-> [n |-> x.n, d |-> x.d],
                str |-> <<>>]
        ELSE IF IsBareWord(raw_val)
          THEN [ok |-> TRUE, val_type |-> "str", num |-> NoNumber, str |-> raw_val]
        ELSE [ok |-> FALSE, val_type |-> "None", num |-> NoNumber, str |-> <<>>]
  IN  IF StartsWith(raw_val, <<"'">>) /\ raw_val[Len(raw_val)] = "'"
        THEN [ok |-> TRUE, val_type |-> "str", num |-> NoNumber,
              str |-> SubSeq(raw_val, 2, Len(raw_val) - 1)]
      ELSE IF Contains(raw_val, <<".">>) THEN Number(ParseFloat(raw_val))
      ELSE Number(ParseInt(raw_val))

\* PARSE WHERE CLAUSE: [ok, msg, where]
ParseWhere(where_body) ==
  LET Build(op, col, v) ==
        IF ~IsIdentifier(col)
          THEN [ok |-> FALSE, msg |-> "Invalid column in WHERE", where |-> NoWhere]
        ELSE IF ~v.ok
          THEN [ok |-> FALSE, msg |-> "WHERE value must be number or string",
                where |-> NoWhere]
        ELSE [ok |-> TRUE, msg |-> "",
              where |-> [present |-> TRUE, col |-> col, op |-> op,
                         val_type |-> v.val_type, num |-> v.num, str |-> v.str]]
      Sides(op, lr) == Build(op, Lower(Strip(lr[1])), ParseValue(Strip(lr[2])))
      Go(k) ==
        IF k = 0
          THEN [ok |-> FALSE, msg |-> "WHERE must contain a comparison operator",
                where |-> NoWhere]
          ELSE Sides(COMPARISON_OPS[k], SplitOnce(where_body, COMPARISON_OPS[k]))
  IN  Go(FirstOp(where_body))

\* SPLIT INTO SELECT and REST: s.split(" from ", 1) if " from " in s else
\* s.split(" FROM ", 1); one part only when FROM is written in mixed case
SplitFrom(s) ==
  IF Contains(s, Chars(" from ")) THEN SplitOnce(s, Chars(" from "))
  ELSE SplitOnce(s, Chars(" FROM "))

\* SPLIT REST INTO TABLE and WHERE: [has_where, from_part, where_body]
SplitRest(raw_rest) ==
  LET Go(parts) ==
        [has_where |-> TRUE, from_part |-> Strip(parts[1]), where_body |-> Strip(parts[2])]
  IN  IF Contains(Upper(raw_rest), Chars(" WHERE "))
        THEN Go(ReSplitWhere(raw_rest))
        ELSE [has_where |-> FALSE, from_part |-> Strip(raw_rest), where_body |-> <<>>]

Raise(p, kind, msg) == [p EXCEPT !.kind = kind, !.msg = msg]

parse(text) ==
  LET Clauses(p, sel, w) ==
        IF ~sel.ok THEN Raise(p, "SQLParseError", sel.msg)
        ELSE IF p.where_body = <<>> THEN [p EXCEPT !.kind = "query", !.select = sel.select]
        ELSE IF ~w.ok THEN Raise([p EXCEPT !.select = sel.select], "SQLParseError", w.msg)
        ELSE [p EXCEPT !.kind = "query", !.select = sel.select, !.where = w.where]
      Sections(select_body, raw_rest, rest) ==
        Clauses([NoParse EXCEPT !.select_body = select_body, !.raw_rest = raw_rest,
                                !.has_where = rest.has_where,
                                !.where_body = rest.where_body,
                                !.from = Lower(rest.from_part)],
                ParseSelect(select_body),
                IF rest.where_body = <<>> THEN [ok |-> TRUE, msg |-> "", where |-> NoWhere]
                ELSE ParseWhere(rest.where_body))
      Unpack(parts) ==
        IF Len(parts) # 2
          THEN Raise(NoParse, "ValueError", "not enough values to unpack")
          ELSE Sections(Strip(SubSeq(parts[1], 8, Len(parts[1]))), parts[2],
                        SplitRest(parts[2]))
      Go(s) ==
        IF ~StartsWith(Upper(s), Chars("SELECT "))
          THEN Raise(NoParse, "SQLParseError", "Query must start with SELECT")
        ELSE IF ~Contains(Upper(s), Chars(" FROM "))
          THEN Raise(NoParse, "SQLParseError", "Missing FROM clause")
        ELSE Unpack(SplitFrom(s))
  IN  IF Strip(text) = <<>> THEN Raise(NoParse, "SQLParseError", "Empty SQL")
      ELSE Go(normalize_whitespace(RStripSemi(Strip(text))))

----------------------------------------------------------------------------
(* engine.py: the table registry and load_csv                              *)

\* a cell is None, an int, a float or a str
Null == [t |-> "null", n |-> 0, d |-> 0, s |-> <<>>]

IntCell(n) == [t |-> "int", n |-> n, d |-> 0, s |-> <<>>]

FloatCell(n, d) == [t |-> "float", n |-> n, d |-> d, s |-> <<>>]

StrCell(s) == [t |-> "str", n |-> 0, d |-> 0, s |-> s]

\* one value of _convert_row_types: '' -> None, else int, else float, else str
ConvertValue(v) ==
  LET Go(val, i, f) ==
        IF val = <<>> THEN Null
        ELSE IF i.ok THEN IntCell(i.n)
        ELSE IF f.ok THEN FloatCell(f.n, f.d)
        ELSE StrCell(val)
  IN  Go(Strip(v), ParseInt(v), ParseFloat(v))

\* a row is a dict: a sequence of [k, v] in insertion order, keys distinct
Keys(row) == [i \in 1..Len(row) |-> row[i].k]

\* list.index(x)
IndexOf(seq, x) == MinOf({i \in 1..Len(seq) : seq[i] = x})

\* r.get(c)
Get(row, c) ==
  IF \E i \in 1..Len(row) : row[i].k = c THEN row[IndexOf(Keys(row), c)].v ELSE Null

\* d[k] = v
DictSet(row, k, v) ==
  IF \E i \in 1..Len(row) : row[i].k = k
    THEN [row EXCEPT ![IndexOf(Keys(row), k)].v = v]
    ELSE Append(row, [k |-> k, v |-> v])

\* csv.DictReader's dict(zip(fieldnames, fields)), a short row filled with None,
\* then _convert_row_types
RECURSIVE _convert_row_types(_, _, _)
_convert_row_types(header, fields, i) ==
  IF i = 0 THEN <<>>
  ELSE DictSet(_convert_row_types(header, fields, i - 1), header[i],
               IF i > Len(fields) THEN Null ELSE ConvertValue(fields[i]))

EmptyRegistry == [k \in {} |-> <<>>]

\* Engine.load_csv of file f = [name, exists, header, data]: the registry after
\* it.  A missing file raises FileNotFoundError; a row with more fields than the
\* header gets a list under the key None, on which v.strip() raises: both leave
\* the registry as it was.  DictReader skips rows without fields.
load_csv(tbls, f) ==
  LET table_key == Lower(f.name)
      data == SelectSeq(f.data, LAMBDA r : r # <<>>)
      rs == [i \in 1..Len(data) |-> _convert_row_types(f.header, data[i], Len(f.header))]
  IN  IF ~f.exists THEN tbls
      ELSE IF \E i \in 1..Len(data) : Len(data[i]) > Len(f.header) THEN tbls
      ELSE [k \in DOMAIN tbls \cup {table_key} |-> IF k = table_key THEN rs ELSE tbls[k]]

----------------------------------------------------------------------------
(* engine.py: execute                                                      *)

\* the requested names returned as they are, never matched against the row
ResolveVerbatim(rs, requested_cols) == [ok |-> TRUE, cols |-> requested_cols]

\* the requested names matched against the keys as written, case and all
ResolveCaseSensitive(rs, requested_cols) ==
  IF rs = <<>> THEN [ok |-> TRUE, cols |-> requested_cols]
  ELSE IF \E i \in 1..Len(requested_cols) : requested_cols[i] \notin Range(Keys(rs[1]))
    THEN [ok |-> FALSE, cols |-> <<>>]
  ELSE [ok |-> TRUE, cols |-> requested_cols]

\* Engine._resolve_columns_case_insensitive: [ok, cols]; ok = FALSE is ColumnError
_resolve_columns_case_insensitive(rs, requested_cols) ==
  LET Go(actual_cols, lower_actual, stars) ==
        IF \E i \in 1..(IF stars = {} THEN Len(requested_cols) ELSE MinOf(stars) - 1) :
             Lower(requested_cols[i]) \notin Range(lower_actual)
          THEN [ok |-> FALSE, cols |-> <<>>]
        ELSE IF stars # {} THEN [ok |-> TRUE, cols |-> actual_cols]
        ELSE [ok |-> TRUE,
              cols |-> [i \in 1..Len(requested_cols) |->
                          actual_cols[IndexOf(lower_actual, Lower(requested_cols[i]))]]]
  IN  IF rs = <<>> THEN [ok |-> TRUE, cols |-> requested_cols]
      ELSE Go(Keys(rs[1]), [i \in 1..Len(rs[1]) |-> Lower(rs[1][i].k)],
              {i \in 1..Len(requested_cols) : requested_cols[i] = Chars("*")})

\* str.isdigit()
IsDigit(s) == s # <<>> /\ \A i \in 1..Len(s) : s[i] \in Digits

\* the coercion of a cell for a numeric operand: float(cell) for a str with a
\* '.', int(cell) for an int or an all-digit str, else float(cell); ok = FALSE is
\* the exception that drops the row
Coerce(cell) ==
  IF cell.t = "str"
    THEN IF Contains(cell.s, <<".">>) THEN ParseFloat(cell.s)
         ELSE IF IsDigit(cell.s) THEN ParseInt(cell.s)
         ELSE ParseFloat(cell.s)
    ELSE [ok |-> TRUE, n |-> cell.n, d |-> cell.d]

\* str(cell)
CellText(cell) ==
  IF cell.t = "int" THEN IntText(cell.n)
  ELSE IF cell.t = "float" THEN FloatText(cell.n, cell.d)
  ELSE IF cell.t = "str" THEN cell.s
  ELSE Chars("None")

\* compare with >= and <= taken for > and <
compareStrict(num, left, op, right) ==
  LET lt == IF num THEN NumLess(left, right) ELSE TextLess(left, right)
      gt == IF num THEN NumLess(right, left) ELSE TextLess(right, left)
      eq == IF num THEN NumEq(left, right) ELSE left = right
  IN  IF op = Chars("=") THEN eq
      ELSE IF op = Chars("!=") THEN ~eq
      ELSE IF op \in {Chars(">"), Chars(">=")} THEN gt
      ELSE IF op \in {Chars("<"), Chars("<=")} THEN lt
      ELSE FALSE

\* compare(left, op, right) of _apply_where; both sides numbers (num = TRUE) or
\* both texts
compare(num, left, op, right) ==
  LET lt == IF num THEN NumLess(left, right) ELSE TextLess(left, right)
      gt == IF num THEN NumLess(right, left) ELSE TextLess(right, left)
      eq == IF num THEN NumEq(left, right) ELSE left = right
  IN  IF op = Chars("=") THEN eq
      ELSE IF op = Chars("!=") THEN ~eq
      ELSE IF op = Chars(">") THEN gt
      ELSE IF op = Chars("<") THEN lt
      ELSE IF op = Chars(">=") THEN gt \/ eq
      ELSE IF op = Chars("<=") THEN lt \/ eq
      ELSE FALSE

\* the loop without its "if cell is None: continue"
RowMatchesNoneKept(r, real_col, where) ==
  LET Num(left_val) ==
        left_val.ok /\ compare(TRUE, [n |-> left_val.n, d |-> left_val.d],
                               where.op, where.num)
      Go(cell) ==
        IF where.val_type = "num" THEN cell # Null /\ Num(Coerce(cell))
        ELSE compare(FALSE, CellText(cell), where.op, where.str)
  IN  Go(Get(r, real_col))

\* one turn of the loop of _apply_where: whether row r is appended to filtered
RowMatches(r, real_col, where) ==
  LET Num(left_val) ==
        left_val.ok /\ compare(TRUE, [n |-> left_val.n, d |-> left_val.d],
                               where.op, where.num)
      Go(cell) ==
        IF cell = Null THEN FALSE
        ELSE IF where.val_type = "num" THEN Num(Coerce(cell))
        ELSE compare(FALSE, CellText(cell), where.op, where.str)
  IN  Go(Get(r, real_col))

\* Engine._apply_where: [ok, rows]; ok = FALSE is ColumnError
_apply_where(rs, where) ==
  LET Filter(real_col) ==
        [ok |-> TRUE, rows |-> SelectSeq(rs, LAMBDA r : RowMatches(r, real_col, where))]
      Go(actual_cols, lower_actual) ==
        IF Lower(where.col) \notin Range(lower_actual)
          THEN [ok |-> FALSE, rows |-> <<>>]
          ELSE Filter(actual_cols[IndexOf(lower_actual, Lower(where.col))])
  IN  IF rs = <<>> THEN [ok |-> TRUE, rows |-> <<>>]
      ELSE Go(Keys(rs[1]), [i \in 1..Len(rs[1]) |-> Lower(rs[1][i].k)])

NoResult == [kind |-> "None", msg |-> "", cols |-> <<>>, rows |-> <<>>]

Returned(cols, out_rows) == [kind |-> "result", msg |-> "", cols |-> cols, rows |-> out_rows]

Raised(kind, msg) == [kind |-> kind, msg |-> msg, cols |-> <<>>, rows |-> <<>>]

\* [[r.get(c) for c in cols] for r in rows]
Project(rs, cols) ==
  [i \in 1..Len(rs) |-> [j \in 1..Len(cols) |-> Get(rs[i], cols[j])]]

\* the part of execute after the WHERE filter: the aggregate and the projection
Select(select, rs) ==
  LET CountCol(name, res) ==
        IF rs = <<>> THEN Returned(<<name>>, <<<<IntCell(0)>>>>)
        ELSE IF ~res.ok THEN Raised("ColumnError", "not found in table")
        ELSE Returned(<<name>>,
               <<<<IntCell(Cardinality({i \in 1..Len(rs) :
                                          Get(rs[i], res.cols[1]) # Null}))>>>>)
      Star(cols) == Returned(cols, Project(rs, cols))
      Columns(res) ==
        IF ~res.ok THEN Raised("ColumnError", "not found in table")
        ELSE Returned(res.cols, Project(rs, res.cols))
  IN  IF select.type = "count"
        THEN IF select.count_col = Chars("*")
               THEN Returned(<<Chars("COUNT(*)")>>, <<<<IntCell(Len(rs))>>>>)
               ELSE CountCol(Chars("COUNT(") \o select.count_col \o Chars(")"),
                             _resolve_columns_case_insensitive(rs, <<select.count_col>>))
      ELSE IF select.cols = <<Chars("*")>>
        THEN Star(IF rs # <<>> THEN Keys(rs[1]) ELSE <<>>)
      ELSE Columns(IF rs # <<>> THEN _resolve_columns_case_insensitive(rs, select.cols)
                   ELSE [ok |-> TRUE, cols |-> select.cols])

\* the filter done in place: self.tables[table_key] = rows
RegistryFilteredInPlace(tbls, table_key, rs) == [tbls EXCEPT ![table_key] = rs]

\* the registry when execute returns: rows is rebound to the list _apply_where
\* builds, the list held by self.tables is left alone
RegistryAfter(tbls, table_key, rs) == tbls

\* Engine.execute(sql) on registry tbls: the registry after the call, the parse,
\* the rows left by the WHERE filter, and what the call returns or raises
execute(tbls, text) ==
  LET Failed(p, res) == [tables |-> tbls, parsed |-> p, rows |-> <<>>, result |-> res]
      Filtered(p, table_key, f) ==
        IF ~f.ok THEN Failed(p, Raised("ColumnError", "not found in table"))
        ELSE [tables |-> RegistryAfter(tbls, table_key, f.rows), parsed |-> p,
              rows |-> f.rows, result |-> Select(p.select, f.rows)]
      Go(p) ==
        IF p.kind # "query" THEN Failed(p, Raised(p.kind, p.msg))
        ELSE IF Lower(p.from) \notin DOMAIN tbls
          THEN Failed(p, Raised("TableNotFoundError", "not loaded"))
        ELSE Filtered(p, Lower(p.from),
                      IF p.where.present THEN _apply_where(tbls[Lower(p.from)], p.where)
                      ELSE [ok |-> TRUE, rows |-> tbls[Lower(p.from)]])
  IN  Go(parse(text))

----------------------------------------------------------------------------
(* The CSV files and the command lines the session is run with             *)

MaxRows == 4

\* the data rows T.csv is written from; a load finds its first k, k <= MaxRows
RowPool ==
  << <<Chars("1"), Chars("Ann"), Chars("25")>>,
     <<Chars("2"), Chars("bob"), Chars("40")>>,
     <<Chars("3"), Chars(""), Chars(" 30.5 ")>>,
     <<Chars("4"), Chars("Cy")>>,
     <<Chars("5"), Chars("25"), Chars("old")>>,
     <<Chars("6"), Chars("ann"), Chars("025")>> >>

File(name, exists, header, data) ==
  [name |-> Chars(name), exists |-> exists, header |-> header, data |-> data]

Files ==
  {File("T", TRUE, <<Chars("id"), Chars("Name"), Chars("age")>>, SubSeq(RowPool, 1, k)) :
     k \in 0..MaxRows}
  \cup
  {File("u", TRUE, <<Chars("Name"), Chars("name"), Chars("Name")>>,
        << <<Chars("a"), Chars("b"), Chars("z")>>, <<>>, <<Chars("c"), Chars("")>> >>),
   File("w", TRUE, <<Chars("from")>>, << <<Chars("7")>> >>),
   File("bad", TRUE, <<Chars("a")>>, << <<Chars("1"), Chars("2")>> >>),
   File("gone", FALSE, <<>>, <<>>)}

\* a command line is a sequence of segments: K segments hold keywords,
\* identifiers and punctuation, L segments hold literals
K(s) == [lit |-> FALSE, s |-> Chars(s)]

L(s) == [lit |-> TRUE, s |-> Chars(s)]

Styles == {"asis", "lower", "upper", "title"}

Title(s) ==
  [i \in 1..Len(s) |->
     IF i = 1 \/ s[i - 1] \notin Letters THEN UpperCh(s[i]) ELSE LowerCh(s[i])]

Restyle(s, style) ==
  IF style = "lower" THEN Lower(s)
  ELSE IF style = "upper" THEN Upper(s)
  ELSE IF style = "title" THEN Title(s)
  ELSE s

RECURSIVE Render(_, _)
Render(segs, style) ==
  IF segs = <<>> THEN <<>>
  ELSE (IF segs[1].lit THEN segs[1].s ELSE Restyle(segs[1].s, style))
       \o Render(Tail(segs), style)

CountWhere(col_op, lit) == <<K("SELECT COUNT(*) FROM t WHERE " \o col_op), L(lit)>>

Bases ==
  { <<K("SELECT * FROM t")>>,
    <<K("SELECT Name FROM T")>>,
    <<K("SELECT age, NAME ,name FROM t")>>,
    <<K("SELECT nosuch FROM t")>>,
    <<K("SELECT * FROM u")>>,
    <<K("SELECT name FROM u")>>,
    <<K("SELECT * FROM ghost")>>,
    <<K("SELECT * FROM w")>>,
    <<K("SELECT COUNT(*) FROM t")>>,
    <<K("SELECT COUNT( Name ) FROM t")>>,
    <<K("SELECT COUNT(nosuch) FROM t")>>,
    <<K("SELECT COUNT(* FROM t")>>,
    CountWhere("age >= ", "30"),
    CountWhere("age > ", "25"),
    CountWhere("age < ", "30.5"),
    CountWhere("age <= ", "40"),
    CountWhere("age = ", "25"),
    CountWhere("age != ", "25"),
    CountWhere("age > ", "-1_0"),
    CountWhere("Name != ", "'bob'"),
    CountWhere("Name = ", "Ann"),
    CountWhere("name > ", "'B'"),
    CountWhere("name <= ", "'bob'"),
    CountWhere("name<", "'b'"),
    CountWhere("name >= ", "Cy"),
    CountWhere("age = ", "'25'"),
    CountWhere("age != ", "'30.5'"),
    CountWhere("Name > ", "5"),
    CountWhere("Name != ", "5"),
    CountWhere("nosuch = ", "1"),
    <<K("SELECT id FROM t WHERE age > "), L("30")>>,
    <<K("SELECT id, nosuch FROM t WHERE age > "), L("100")>>,
    <<K("SELECT * FROM t WHERE Name != "), L("'zz'")>>,
    <<K("SELECT nosuch FROM t WHERE age > "), L("30")>>,
    <<K("SELECT name FROM u WHERE name != "), L("'q'")>>,
    <<K("SELECT a,,b FROM t")>>,
    <<K("SELECT id,, age FROM t")>>,
    <<K("SELECT id, FROM t")>>,
    <<K("SELECT ,id FROM t")>>,
    <<K("SELECT , FROM t")>>,
    <<K("SELECT FROM t")>>,
    <<K("SELECT id name FROM t")>>,
    <<K("SELECT id,1a FROM t")>>,
    <<K("SELECT id FROM t WHERE Name = "), L("'x from y'")>>,
    <<K("SELECT id FROM t WHERE Name != "), L("'x FROM y'")>>,
    <<K("SELECT id FROM t WHERE age > "), L("30"), K(" WHERE id = "), L("1")>>,
    <<K("SELECT id FROM t WHERE age "), L("30")>>,
    <<K("SELECT id FROM t WHERE age =< "), L("30")>>,
    <<K("SELECT id FROM t WHERE age => "), L("30")>>,
    <<K("SELECT id FROM t WHERE the age = "), L("30")>>,
    <<K("SELECT id FROM t WHERE age = "), L("3 0")>>,
    <<K("SELECT id t")>>,
    <<K("SELEC id FROM t")>>,
    <<K("  SELECT \t id   FROM  t  WHERE   age>="), L("30"), K(" ;; ")>>,
    <<K(";")>> }

Lines == {Render(b, st) : b \in Bases, st \in Styles}

SelectStar(key) == Chars("SELECT * FROM ") \o key

\* the column-list query that names the columns cols of table key
Reproject(key, cols) == Chars("SELECT ") \o Join(cols, <<",">>) \o Chars(" FROM ") \o key

\* for each loaded table, the re-projection by the columns SELECT * returns
Reprojections(tbls) ==
  {Reproject(key, execute(tbls, SelectStar(key)).result.cols) : key \in DOMAIN tbls}

----------------------------------------------------------------------------
(* cli.py: the command loop                                                *)

Init ==
  /\ tables = EmptyRegistry
  /\ pc = "prompt"
  /\ sql = <<>>
  /\ parsed = NoParse
  /\ rows = <<>>
  /\ result = NoResult

\* the line ".load <path>": eng.load_csv(arg)
Load(f) ==
  /\ pc = "prompt"
  /\ tables' = load_csv(tables, f)
  /\ UNCHANGED <<pc, sql, parsed, rows, result>>

\* s = input(PROMPT).strip() for a line that is not empty, not exit or quit and
\* not a meta command: it is treated as SQL
ReadSql(line) ==
  /\ pc = "prompt"
  /\ Strip(line) # <<>>
  /\ Lower(Strip(line)) \notin {Chars("exit"), Chars("quit"), Chars(".exit")}
  /\ Strip(line)[1] # "."
  /\ sql' = Strip(line)
  /\ pc' = "exec"
  /\ UNCHANGED <<tables, parsed, rows, result>>

\* result = eng.execute(s), its exceptions caught
Run ==
  /\ pc = "exec"
  /\ \E e \in {execute(tables, sql)} :
       /\ tables' = e.tables
       /\ parsed' = e.parsed
       /\ rows' = e.rows
       /\ result' = e.result
  /\ pc' = "print"
  /\ UNCHANGED sql

\* print_result(result) or the error message, then the next turn of the loop
print_result ==
  /\ pc = "print"
  /\ sql' = <<>>
  /\ parsed' = NoParse
  /\ rows' = <<>>
  /\ result' = NoResult
  /\ pc' = "prompt"
  /\ UNCHANGED tables

Next ==
  \/ \E f \in Files : Load(f)
  \/ \E line \in Lines \cup Reprojections(tables) : ReadSql(line)
  \/ Run
  \/ print_result

Spec == Init /\ [][Next]_vars

----------------------------------------------------------------------------
(* The claims.  A call of execute has returned or raised when pc = "print". *)

Executed == pc = "print"

SelectMsgs ==
  {"Invalid COUNT() syntax", "No columns specified in SELECT", "Invalid column name"}

WhereMsgs ==
  {"WHERE must contain a comparison operator", "Invalid column in WHERE",
   "WHERE value must be number or string"}

\* parse got as far as the selection / as far as the predicate
SelectionReached == parsed.kind = "query" \/ parsed.msg \in SelectMsgs \cup WhereMsgs

PredicateReached ==
  parsed.where_body # <<>> /\ (parsed.kind = "query" \/ parsed.msg \in WhereMsgs)

TableLoaded == parsed.kind = "query" /\ Lower(parsed.from) \in DOMAIN tables

Table == tables[Lower(parsed.from)]

\* the positions of the keys of row that are name, letter case ignored
Matching(row, name) == {j \in 1..Len(row) : Lower(row[j].k) = Lower(name)}

\* the cell of row under the first key that is name, letter case ignored
CellOf(row, name) == row[MinOf(Matching(row, name))].v

\* the predicate of the query was applied to the rows of its table
Filtered ==
  /\ TableLoaded
  /\ parsed.where.present
  /\ Table # <<>> => Matching(Table[1], parsed.where.col) # {}

\* -1, 0, 1: how the cell stands to the operand of the predicate; the cell is
\* not None, and is an int or a float when the operand is a number
Order(cell, w) ==
  IF w.val_type = "num"
    THEN IF NumLess(cell, w.num) THEN -1 ELSE IF NumLess(w.num, cell) THEN 1 ELSE 0
    ELSE IF TextLess(CellText(cell), w.str) THEN -1
         ELSE IF TextLess(w.str, CellText(cell)) THEN 1 ELSE 0

Satisfies(c, op) ==
  \/ op = Chars("=") /\ c = 0
  \/ op = Chars("!=") /\ c # 0
  \/ op = Chars(">") /\ c = 1
  \/ op = Chars("<") /\ c = -1
  \/ op = Chars(">=") /\ c >= 0
  \/ op = Chars("<=") /\ c <= 0

\* the cell is not None, can be coerced for the operand kind, and satisfies the
\* operator against the operand
Qualifies(cell, w) ==
  /\ cell.t # "null"
  /\ w.val_type = "num" => cell.t \in {"int", "float"}
  /\ Satisfies(Order(cell, w), w.op)

Qualifying == {i \in 1..Len(Table) : Qualifies(CellOf(Table[i], parsed.where.col), parsed.where)}

IsCountStar == parsed.select.type = "count" /\ parsed.select.count_col = Chars("*")

\* C1: SELECT COUNT(*) with a predicate whose column resolves returns the one
\* column COUNT(*) and one row holding M, the number of table rows whose predicate
\* cell is not None, coercible and satisfies the operator; M <= N.
C1_CountMatches ==
  (Executed /\ Filtered /\ IsCountStar) =>
    /\ result = Returned(<<Chars("COUNT(*)")>>, <<<<IntCell(Cardinality(Qualifying))>>>>)
    /\ Cardinality(Qualifying) <= Len(Table)

\* a count of 2 out of 4 rows, under a numeric operand
C1_Witness ==
  /\ Executed /\ Filtered /\ IsCountStar
  /\ parsed.where.val_type = "num"
  /\ Len(Table) = 4
  /\ result.rows = <<<<IntCell(2)>>>>

NotNullCount == Cardinality({i \in 1..Len(Table) : CellOf(Table[i], parsed.where.col) # Null})

\* C2: a row whose predicate cell is None is never in the filtered rows, for every
\* operator and operand kind: it is not projected and not counted.
C2_NullNeverSelected ==
  (Executed /\ Filtered) =>
    /\ \A i \in 1..Len(rows) : CellOf(rows[i], parsed.where.col) # Null
    /\ Len(rows) <= NotNullCount
    /\ (result.kind = "result" /\ IsCountStar) => result.rows[1][1].n <= NotNullCount
    /\ (result.kind = "result" /\ parsed.select.type = "cols") =>
         Len(result.rows) <= NotNullCount

\* != with a text operand on a table that has a None in the predicate column
C2_Witness ==
  /\ Executed /\ Filtered
  /\ parsed.where.op = Chars("!=") /\ parsed.where.val_type = "str"
  /\ NotNullCount < Len(Table)
  /\ rows # <<>>
  /\ result.kind = "result"

\* the table the executed line re-projects: its key, when the line is the
\* re-projection by the columns SELECT * returns
IsReprojectionOf(key) ==
  /\ Executed
  /\ key \in DOMAIN tables
  /\ sql = Strip(Reproject(key, execute(tables, SelectStar(key)).result.cols))

SameRowsAsStar(key) ==
  /\ result.kind = "result"
  /\ result.rows = execute(tables, SelectStar(key)).result.rows

\* C3 as claimed: for every table, SELECT * and then the column list of the
\* columns it returned yield the same output rows.
C3_RoundTripAnyTable ==
  \A key \in DOMAIN tables : IsReprojectionOf(key) => SameRowsAsStar(key)

\* columns that a column list can name one by one
Nameable(cols) ==
  /\ cols # <<>>
  /\ \A i \in 1..Len(cols) : IsIdentifier(cols[i])
  /\ \A i, j \in 1..Len(cols) : i # j => Lower(cols[i]) # Lower(cols[j])
  /\ cols \notin {<<Chars("from")>>, <<Chars("FROM")>>}

\* C3 amended: the round trip holds for a table with an identifier key, at least
\* one row, and identifier column names that differ ignoring case (and are not the
\* lone column from / FROM).
C3_RoundTrip ==
  \A key \in DOMAIN tables :
    (/\ IsReprojectionOf(key)
     /\ IsIdentifier(key)
     /\ tables[key] # <<>>
     /\ Nameable(Keys(tables[key][1])))
    => SameRowsAsStar(key)

\* the re-projection of a table of three columns and at least two rows
C3_Witness ==
  \E key \in DOMAIN tables :
    /\ IsReprojectionOf(key)
    /\ Len(tables[key]) >= 2
    /\ Nameable(Keys(tables[key][1]))
    /\ Len(result.cols) = 3
    /\ \E i \in 1..3 : result.cols[i] # Lower(result.cols[i])

C5_CaseInsensitive ==
  Executed =>
    \A b \in Bases : \A st \in Styles :
      sql = Strip(Render(b, st)) =>
        \A other \in Styles : execute(tables, Strip(Render(b, other))).result = result

\* the operator list of the claim
ClaimedPriority == <<Chars(">="), Chars("<="), Chars("!="), Chars("="), Chars(">"), Chars("<")>>

\* the parsed predicate is the split of segment at position i on operator op
SplitAt(segment, i, op) ==
  /\ SubSeq(segment, i, i + Len(op) - 1) = op
  /\ \A j \in 1..(i - 1) : SubSeq(segment, j, j + Len(op) - 1) # op
  /\ parsed.where.op = op
  /\ parsed.where.col = Lower(Strip(SubSeq(segment, 1, i - 1)))
  /\ ParseValue(Strip(SubSeq(segment, i + Len(op), Len(segment)))) =
       [ok |-> TRUE, val_type |-> parsed.where.val_type, num |-> parsed.where.num,
        str |-> parsed.where.str]

Occurring(segment) ==
  {k \in 1..Len(ClaimedPriority) : Contains(segment, ClaimedPriority[k])}

\* segment is <identifier> >= <number>
IsGeNumber(segment) ==
  \E i \in 1..(Len(segment) - 1) :
    /\ SubSeq(segment, i, i + 1) = Chars(">=")
    /\ IsIdentifier(Strip(SubSeq(segment, 1, i - 1)))
    /\ IsDigit(Strip(SubSeq(segment, i + 2, Len(segment))))

\* C6: the parsed operator is the first entry of [>=, <=, !=, =, >, <] that occurs
\* in the predicate segment, split at its first occurrence into column and
\* operand; <identifier> >= <number> yields >= with the number as operand.
C6_OperatorPriority ==
  (Executed /\ PredicateReached) =>
    /\ Occurring(parsed.where_body) = {} =>
         parsed.msg = "WHERE must contain a comparison operator"
    /\ parsed.kind = "query" =>
         /\ Occurring(parsed.where_body) # {}
         /\ \E i \in 1..Len(parsed.where_body) :
              /\ i + Len(ClaimedPriority[MinOf(Occurring(parsed.where_body))]) - 1
                   <= Len(parsed.where_body)
              /\ SplitAt(parsed.where_body, i,
                      ClaimedPriority[MinOf(Occurring(parsed.where_body))])
    /\ IsGeNumber(parsed.where_body) =>
         /\ parsed.kind = "query"
         /\ parsed.where.op = Chars(">=")
         /\ parsed.where.val_type = "num"

\* age>=30 written without spaces, parsed as >= 30
C6_Witness ==
  /\ Executed /\ PredicateReached
  /\ parsed.where_body = Chars("age>=30")
  /\ parsed.where.op = Chars(">=")
  /\ parsed.where.num = [n |-> 30, d |-> 0]

\* the selection is neither * nor a COUNT( form
IsColumnSelection ==
  /\ SelectionReached
  /\ parsed.select_body # Chars("*")
  /\ ~StartsWith(Upper(parsed.select_body), Chars("COUNT("))

\* the comma-separated pieces of the selection, trimmed
Pieces ==
  [i \in 1..Len(SplitAll(parsed.select_body, <<",">>)) |->
     Strip(SplitAll(parsed.select_body, <<",">>)[i])]

\* C7 as claimed: parse fails with "Invalid column name" whenever a piece is empty
\* after trimming or is no identifier, and else the column list holds the
\* lowercased pieces in order.
C7_EmptyPieceRejected ==
  (Executed /\ IsColumnSelection) =>
    IF \E i \in 1..Len(Pieces) : Pieces[i] = <<>> \/ ~IsIdentifier(Pieces[i])
      THEN parsed.kind = "SQLParseError" /\ parsed.msg = "Invalid column name"
      ELSE parsed.kind = "query" => parsed.select.cols = [i \in 1..Len(Pieces) |-> Lower(Pieces[i])]

NonEmptyPieces == SelectSeq(Pieces, LAMBDA c : c # <<>>)

\* C7 amended: the pieces that are empty after trimming are dropped; parse fails
\* with "No columns specified in SELECT" when none is left, with "Invalid column
\* name" when the lowercased form of one that is left is no identifier, and else
\* the column list holds the lowercased pieces left, in order, duplicates kept.
C7_EmptyPieceDropped ==
  (Executed /\ IsColumnSelection) =>
    IF NonEmptyPieces = <<>>
      THEN parsed.kind = "SQLParseError" /\ parsed.msg = "No columns specified in SELECT"
    ELSE IF \E i \in 1..Len(NonEmptyPieces) : ~IsIdentifier(Lower(NonEmptyPieces[i]))
      THEN parsed.kind = "SQLParseError" /\ parsed.msg = "Invalid column name"
    ELSE /\ parsed.kind = "query" \/ parsed.msg \in WhereMsgs
         /\ parsed.select.type = "cols"
         /\ parsed.select.cols =
              [i \in 1..Len(NonEmptyPieces) |-> Lower(NonEmptyPieces[i])]

\* a selection with an empty piece and an upper-case piece, parsed to two columns
C7_Witness ==
  /\ Executed /\ IsColumnSelection
  /\ \E i \in 1..Len(Pieces) : Pieces[i] = <<>>
  /\ \E i \in 1..Len(Pieces) : Pieces[i] # Lower(Pieces[i])
  /\ parsed.kind = "query"
  /\ Len(parsed.select.cols) = 2

IsColumnList ==
  /\ TableLoaded
  /\ parsed.select.type = "cols"
  /\ parsed.select.cols # <<Chars("*")>>

\* the predicate names a column the table does not have
PredicateUnresolved ==
  /\ parsed.where.present
  /\ Table # <<>>
  /\ Matching(Table[1], parsed.where.col) = {}

\* C8: with a row left after filtering, a column list fails with ColumnError
\* exactly when a requested name matches no key of the first row left, and else
\* the output columns are the matched keys in request order; with no row left it
\* never fails for a selected column and returns the requested names and no rows.
C8_ColumnResolution ==
  (Executed /\ IsColumnList) =>
    IF rows # <<>>
      THEN IF \E i \in 1..Len(parsed.select.cols) :
                Matching(rows[1], parsed.select.cols[i]) = {}
             THEN result = Raised("ColumnError", "not found in table")
             ELSE /\ result.kind = "result"
                  /\ Len(result.cols) = Len(parsed.select.cols)
                  /\ \A i \in 1..Len(result.cols) :
                       result.cols[i] =
                         rows[1][MinOf(Matching(rows[1], parsed.select.cols[i]))].k
      ELSE IF PredicateUnresolved
             THEN result = Raised("ColumnError", "not found in table")
             ELSE result = Returned(parsed.select.cols, <<>>)

\* a filter leaves a row and the selected column is not in the table
C8_Witness ==
  /\ Executed /\ IsColumnList
  /\ parsed.where.present
  /\ rows # <<>>
  /\ result.kind = "ColumnError"

\* the line as parse sees it after its clean-up
Cleaned == normalize_whitespace(RStripSemi(Strip(sql)))

\* C9: a text that starts with SELECT and holds FROM between spaces, in any
\* casing, is split at the leftmost such FROM, never reported as missing its FROM,
\* and ends in a parsed query or a parse error only.
C9_FirstFrom ==
  (Executed /\ StartsWith(Upper(Cleaned), Chars("SELECT "))
            /\ Contains(Upper(Cleaned), Chars(" FROM "))) =>
    /\ parsed.kind \in {"query", "SQLParseError"}
    /\ parsed.msg # "Missing FROM clause"
    /\ parsed.select_body =
         Strip(SubSeq(Cleaned, 8, Find(Upper(Cleaned), Chars(" FROM ")) - 1))
    /\ parsed.raw_rest =
         SubSeq(Cleaned, Find(Upper(Cleaned), Chars(" FROM ")) + 6, Len(Cleaned))

\* C10: a remainder that holds WHERE between spaces is split at its first WHERE
\* only: the table name is the text before it and the predicate segment is the
\* whole text after it.
C10_WhereOnce ==
  (Executed /\ SelectionReached /\ FindWhere(parsed.raw_rest) # 0) =>
    /\ parsed.from = Lower(Strip(SubSeq(parsed.raw_rest, 1, FindWhere(parsed.raw_rest) - 1)))
    /\ parsed.where_body =
         Strip(SubSeq(parsed.raw_rest, FindWhere(parsed.raw_rest) + 7, Len(parsed.raw_rest)))

====
